---------------------------- MODULE Spec2Model ----------------------------
(***************************************************************************)
(* A model of the fsnotify fork: the Op bitmask and its stringifier, the   *)
(* option resolution, recursivePath, the GetDirNames tree walk and the     *)
(* demo command's watch / watchLoop.                                       *)
(*                                                                         *)
(* Each part of the program has its own specification (SpecOp, SpecOpts,   *)
(* SpecPath, SpecWalk, SpecWatch, FairSpecWatch); a specification leaves   *)
(* the variables of the other parts at their initial values.               *)
(***************************************************************************)
EXTENDS Integers, Sequences, FiniteSets, TLC

VARIABLES
    \* ---- Op (fsnotify.go) ----
    flags,        \* names of the constants OR-ed into o so far (history)
    o,            \* the Op word of the event being built
    h,            \* the mask last asked about
    hasRes,       \* result of o.Has(h)
    evHasRes,     \* result of Event{Name, o}.Has(h)
    str,          \* result of o.String(), as the tokens written
    \* ---- options (fsnotify.go) ----
    defaultOpts,  \* the package variable defaultOpts
    optLog,      \* the option lists of the getOptions calls made, oldest first
    with,         \* the withOpts value getOptions returned last
    \* ---- recursivePath (fsnotify.go) ----
    path,         \* the argument, a string as its sequence of characters
    ret,          \* what recursivePath(path) returned: [path, ok]
    \* ---- the file system, GetDirNames (utils.go) ----
    fs,           \* path -> "none" | "file" | "dir" | "noperm" (unreadable dir)
    rootsArg,     \* the names argument of the GetDirNames call
    gdnRet,       \* what GetDirNames returned: [files, err]
    wpc,          \* "setup" | "returned" | "exited" (the caller's position)
    exited,       \* the process has ended through log.Fatal / exit
    \* ---- watch, watchLoop (cmd/fsnotify/watch.go) ----
    watches,      \* the paths registered with the watcher
    Events,       \* the Events channel: queued [Name, Op] records
    Errors,       \* the Errors channel: queued errors
    closed,       \* Close has closed both channels
    mainPc,       \* watch(): "start" | "ready" (blocked forever)
    loopPc,       \* watchLoop(): "run" | "done" (returned)
    printed,      \* the event watchLoop printed last, or NoEvent
    lastAdd       \* the name watchLoop passed to w.Add for the event printed last

opVars == <<flags, o, h, hasRes, evHasRes, str>>
optVars == <<defaultOpts, optLog, with>>
pathVars == <<path, ret>>
fsVars == <<fs, exited>>
walkVars == <<rootsArg, gdnRet, wpc>>
watchVars == <<watches, Events, Errors, closed, mainPc, loopPc, printed, lastAdd>>
vars == <<opVars, optVars, pathVars, fsVars, walkVars, watchVars>>

-----------------------------------------------------------------------------
(* Bounds *)

\* at most this many named constants are OR-ed into one Op word
MaxFlags == 2
\* at most this many options are passed to one getOptions call
MaxOpts == 2
\* at most this many getOptions calls are made
MaxCalls == 2
\* longest path string given to recursivePath
MaxPathLen == 6
\* deepest path of the file system GetDirNames walks
MaxWalkDepth == 2
\* deepest directory of the file system the demo command watches
MaxWatchDepth == 3
\* capacity of the Events queue
MaxQueue == 1
\* capacity of the Errors queue
MaxErrQueue == 1

-----------------------------------------------------------------------------
(* Op constants, fsnotify.go:40-108.  Op is a uint32. *)

Create == 1
Write == 2
Remove == 4
Rename == 8
Chmod == 16
IN_ACCESS == 1
IN_ALL_EVENTS == 4095
IN_ATTRIB == 4
IN_CLOSE == 24
IN_CLOSE_NOWRITE == 16
IN_CLOSE_WRITE == 8
IN_CREATE == 256
IN_DELETE == 512
IN_DELETE_SELF == 1024
IN_DONT_FOLLOW == 33554432
IN_IGNORED == 32768
IN_ISDIR == 1073741824
IN_MODIFY == 2
IN_MOVE == 192
IN_MOVED_FROM == 64
IN_MOVED_TO == 128
IN_MOVE_SELF == 2048
IN_OPEN == 32
IN_Q_OVERFLOW == 16384

\* the five canonical operations, by name
CanonicalOps ==
    [Create |-> Create, Write |-> Write, Remove |-> Remove,
     Rename |-> Rename, Chmod |-> Chmod]

\* the kernel subflags that name one event bit each, by name
KernelFlags ==
    [IN_ACCESS |-> IN_ACCESS, IN_MODIFY |-> IN_MODIFY, IN_ATTRIB |-> IN_ATTRIB,
     IN_CLOSE_WRITE |-> IN_CLOSE_WRITE, IN_CLOSE_NOWRITE |-> IN_CLOSE_NOWRITE,
     IN_OPEN |-> IN_OPEN, IN_MOVED_FROM |-> IN_MOVED_FROM,
     IN_MOVED_TO |-> IN_MOVED_TO, IN_CREATE |-> IN_CREATE,
     IN_DELETE |-> IN_DELETE, IN_DELETE_SELF |-> IN_DELETE_SELF,
     IN_MOVE_SELF |-> IN_MOVE_SELF, IN_Q_OVERFLOW |-> IN_Q_OVERFLOW,
     IN_IGNORED |-> IN_IGNORED, IN_DONT_FOLLOW |-> IN_DONT_FOLLOW,
     IN_ISDIR |-> IN_ISDIR]

\* the composite masks of the constant block
CompositeMasks ==
    [IN_CLOSE |-> IN_CLOSE, IN_MOVE |-> IN_MOVE, IN_ALL_EVENTS |-> IN_ALL_EVENTS]

CanonicalNames == DOMAIN CanonicalOps
KernelNames == DOMAIN KernelFlags
FlagNames == CanonicalNames \cup KernelNames

FlagValue(n) == IF n \in CanonicalNames THEN CanonicalOps[n] ELSE KernelFlags[n]

\* the masks Has is asked about: every constant above, and the empty mask
Masks ==
    {0} \cup {CanonicalOps[n] : n \in CanonicalNames}
        \cup {KernelFlags[n] : n \in KernelNames}
        \cup {CompositeMasks[n] : n \in DOMAIN CompositeMasks}

-----------------------------------------------------------------------------
(* Bit arithmetic on Op words (Go's & and | on uint32) *)

RECURSIVE And(_, _)
And(a, b) ==
    IF a = 0 \/ b = 0 THEN 0
    ELSE (a % 2) * (b % 2) + 2 * And(a \div 2, b \div 2)

Or(a, b) == a + b - And(a, b)

\* bit i of a
Bit(a, i) == (a \div (2 ^ i)) % 2 = 1

\* the bit positions of an Op word the model uses
BitPos == 0 .. 30

-----------------------------------------------------------------------------
(* Op.Has, Event.Has: fsnotify.go:190-194 *)

HasAnyBit(op, mask) == And(op, mask) # 0

Has(op, mask) == And(op, mask) = mask

EventHas(e, op) == Has(e.Op, op)

-----------------------------------------------------------------------------
(* Op.String: fsnotify.go:117-188.  The strings.Builder is the sequence of  *)
(* tokens written; each WriteString("|NAME") writes the separator and NAME. *)

StringMasks ==
    << [mask |-> IN_ACCESS,        name |-> "IN_ACCESS"],
       [mask |-> IN_ATTRIB,        name |-> "IN_ATTRIB"],
       [mask |-> IN_CLOSE,         name |-> "IN_CLOSE"],
       [mask |-> IN_CLOSE_NOWRITE, name |-> "IN_CLOSE_NOWRITE"],
       [mask |-> IN_CLOSE_WRITE,   name |-> "IN_CLOSE_WRITE"],
       [mask |-> IN_CREATE,        name |-> "IN_CREATE"],
       [mask |-> IN_DELETE,        name |-> "IN_DELETE"],
       [mask |-> IN_DELETE_SELF,   name |-> "IN_DELETE_SELF"],
       [mask |-> IN_MOVED_TO,      name |-> "IN_MOVED_TO"],
       [mask |-> IN_MODIFY,        name |-> "IN_MODIFY"],
       [mask |-> IN_MOVE_SELF,     name |-> "IN_MOVE_SELF"],
       [mask |-> IN_MOVED_FROM,    name |-> "IN_MOVED_FROM"],
       [mask |-> IN_ISDIR,         name |-> "IN_ISDIR"],
       [mask |-> IN_OPEN,          name |-> "IN_OPEN"],
       [mask |-> IN_DONT_FOLLOW,   name |-> "IN_DONT_FOLLOW"] >>

\* the builder after the tests i .. Len(StringMasks) have run on builder b
RECURSIVE WriteFrom(_, _, _)
WriteFrom(op, i, b) ==
    IF i > Len(StringMasks) THEN b
    ELSE WriteFrom(op, i + 1,
                   IF Has(op, StringMasks[i].mask)
                   THEN b \o <<"|", StringMasks[i].name>>
                   ELSE b)

OpStringNoStrip(op) ==
    LET b == WriteFrom(op, 1, <<>>)
    IN  IF Len(b) = 0 THEN <<"[no events]">> ELSE b

OpString(op) ==
    LET b == WriteFrom(op, 1, <<>>)
    IN  IF Len(b) = 0 THEN <<"[no events]">> ELSE Tail(b)


-----------------------------------------------------------------------------
(* Options: fsnotify.go:202-230.  An addOpt made by WithBufferSize(bytes)   *)
(* is represented by its bytes argument.                                    *)

DefaultBufSize == 65536

\* the bufsize arguments the callers pass
BufSizes == {4096, 65536, 131072}

\* the option lists a caller passes
OptLists == UNION {[1 .. k -> BufSizes] : k \in 0 .. MaxOpts}

\* applying WithBufferSize(bytes) to the withOpts opt
WithBufferSize(bytes, opt) == [opt EXCEPT !.bufsize = bytes]

\* the for loop of getOptions over opts[i ..], on the local copy w
RECURSIVE ApplyFrom(_, _, _)
ApplyFrom(opts, i, w) ==
    IF i > Len(opts) THEN w
    ELSE ApplyFrom(opts, i + 1, WithBufferSize(opts[i], w))

\* what getOptions(opts...) returns
getOptions(opts) == ApplyFrom(opts, 1, defaultOpts)

\* a call of getOptions that works on the package variable itself
CallGetOptionsAliased(opts) ==
    /\ Len(optLog) < MaxCalls
    /\ with' = getOptions(opts)
    /\ defaultOpts' = getOptions(opts)
    /\ optLog' = Append(optLog, opts)
    /\ UNCHANGED <<opVars, pathVars, fsVars, walkVars, watchVars>>

\* a call of getOptions: with is a copy, the package variable is not written
CallGetOptions(opts) ==
    /\ Len(optLog) < MaxCalls
    /\ with' = getOptions(opts)
    /\ defaultOpts' = defaultOpts
    /\ optLog' = Append(optLog, opts)
    /\ UNCHANGED <<opVars, pathVars, fsVars, walkVars, watchVars>>

-----------------------------------------------------------------------------
(* recursivePath: fsnotify.go:232-239, with path/filepath's Base, Dir and   *)
(* Clean for a "/"-separated file system.  A string is the sequence of its  *)
(* characters.                                                              *)

Chars == {"/", ".", "a"}

IsPathSeparator(c) == c = "/"

Dots == <<".", ".", ".">>

\* s without its trailing separators
RECURSIVE StripTrailing(_)
StripTrailing(s) ==
    IF Len(s) > 0 /\ IsPathSeparator(s[Len(s)])
    THEN StripTrailing(SubSeq(s, 1, Len(s) - 1))
    ELSE s

\* the greatest i <= n with s[i] a separator, 0 if there is none
RECURSIVE LastSep(_, _)
LastSep(s, n) ==
    IF n = 0 THEN 0
    ELSE IF IsPathSeparator(s[n]) THEN n ELSE LastSep(s, n - 1)

\* filepath.Base
Base(p) ==
    IF Len(p) = 0 THEN <<".">>
    ELSE LET s == StripTrailing(p)
             i == LastSep(s, Len(s))
             e == SubSeq(s, i + 1, Len(s))
         IN  IF Len(e) = 0 THEN <<"/">> ELSE e

\* Clean's backtracking over the last element written: the new write index
RECURSIVE Backtrack(_, _, _)
Backtrack(out, w, dotdot) ==
    IF w > dotdot /\ ~IsPathSeparator(out[w + 1])
    THEN Backtrack(out, w - 1, dotdot)
    ELSE w

\* the end (exclusive, 0-based) of the element of p that starts at r
RECURSIVE ElemEnd(_, _)
ElemEnd(p, r) ==
    IF r < Len(p) /\ ~IsPathSeparator(p[r + 1]) THEN ElemEnd(p, r + 1) ELSE r

\* Clean's loop: r is the 0-based read index, out the buffer written so far
RECURSIVE CleanLoop(_, _, _, _, _)
CleanLoop(p, r, out, dotdot, rooted) ==
    LET n == Len(p)
    IN  IF r >= n THEN out
        ELSE IF IsPathSeparator(p[r + 1])
             THEN CleanLoop(p, r + 1, out, dotdot, rooted)
        ELSE IF p[r + 1] = "." /\ (r + 1 = n \/ IsPathSeparator(p[r + 2]))
             THEN CleanLoop(p, r + 1, out, dotdot, rooted)
        ELSE IF /\ p[r + 1] = "."
                /\ r + 1 < n
                /\ p[r + 2] = "."
                /\ (r + 2 = n \/ IsPathSeparator(p[r + 3]))
             THEN IF Len(out) > dotdot
                  THEN CleanLoop(p, r + 2,
                           SubSeq(out, 1, Backtrack(out, Len(out) - 1, dotdot)),
                           dotdot, rooted)
                  ELSE IF ~rooted
                  THEN LET o1 == IF Len(out) > 0 THEN Append(out, "/") ELSE out
                           o2 == o1 \o <<".", ".">>
                       IN  CleanLoop(p, r + 2, o2, Len(o2), rooted)
                  ELSE CleanLoop(p, r + 2, out, dotdot, rooted)
        ELSE LET o1 == IF (rooted /\ Len(out) # 1) \/ (~rooted /\ Len(out) # 0)
                       THEN Append(out, "/") ELSE out
                 e  == ElemEnd(p, r)
             IN  CleanLoop(p, e, o1 \o SubSeq(p, r + 1, e), dotdot, rooted)

\* filepath.Clean
Clean(p) ==
    IF Len(p) = 0 THEN <<".">>
    ELSE LET rooted == IsPathSeparator(p[1])
             out == IF rooted
                    THEN CleanLoop(p, 1, <<"/">>, 1, TRUE)
                    ELSE CleanLoop(p, 0, <<>>, 0, FALSE)
         IN  IF Len(out) = 0 THEN <<".">> ELSE out

\* filepath.Dir
Dir(p) == Clean(SubSeq(p, 1, LastSep(p, Len(p))))

recursivePath(p) ==
    IF Base(p) = Dots
    THEN [path |-> Dir(p), ok |-> TRUE]
    ELSE [path |-> p, ok |-> FALSE]

\* the caller types one more character of the path and asks recursivePath
TypeChar(c) ==
    /\ Len(path) < MaxPathLen
    /\ path' = Append(path, c)
    /\ ret' = recursivePath(path')
    /\ UNCHANGED <<opVars, optVars, fsVars, walkVars, watchVars>>

\* the caller starts over with the empty path
ClearPath ==
    /\ Len(path) > 0
    /\ path' = <<>>
    /\ ret' = recursivePath(<<>>)
    /\ UNCHANGED <<opVars, optVars, fsVars, walkVars, watchVars>>

-----------------------------------------------------------------------------
(* The file system.  A path is the sequence of its elements; filepath.Join  *)
(* of a directory and a name appends the name.                              *)

\* the entry names, in the lexical order readDirNames returns them
DirNames == <<"a", "b">>

\* every path of at most d elements over the names ns
PathsOver(ns, d) == UNION {[1 .. k -> ns] : k \in 1 .. d}

WalkPaths == PathsOver({"a", "b"}, MaxWalkDepth)

Parent(p) == SubSeq(p, 1, Len(p) - 1)

\* p is q or lies under q
Under(q, p) == Len(q) <= Len(p) /\ SubSeq(p, 1, Len(q)) = q

Exists(fsys, p) == p \in DOMAIN fsys /\ fsys[p] # "none"

\* an entry can be made at p: nothing is there and its directory is writable
CanCreate(fsys, p) ==
    /\ p \in DOMAIN fsys
    /\ fsys[p] = "none"
    /\ IF Len(p) = 1 THEN TRUE ELSE fsys[Parent(p)] = "dir"

-----------------------------------------------------------------------------
(* GetDirNames: utils.go:9-31, with filepath.Walk.  The walk threads        *)
(* st = [files, err, exited]: the slice appended to, the error the walk     *)
(* function returned, and whether log.Fatal has ended the process.          *)

\* the WalkFunc visit(&files) called on p with the error err
visit(st, p, err) ==
    IF err THEN [st EXCEPT !.exited = TRUE]
    ELSE [st EXCEPT !.files = Append(@, p)]

RECURSIVE walk(_, _, _), walkChildren(_, _, _, _)

\* filepath.walk on the existing entry p
walk(fsys, p, st) ==
    IF fsys[p] = "file" THEN visit(st, p, FALSE)
    ELSE LET readErr == fsys[p] = "noperm"
             st1 == visit(st, p, readErr)
         IN  IF readErr \/ st1.err \/ st1.exited THEN st1
             ELSE walkChildren(fsys, p, 1, st1)

\* the loop of filepath.walk over the names DirNames[i ..] of directory p
walkChildren(fsys, p, i, st) ==
    IF i > Len(DirNames) \/ st.err \/ st.exited THEN st
    ELSE LET c == Append(p, DirNames[i])
         IN  IF Exists(fsys, c)
             THEN walkChildren(fsys, p, i + 1, walk(fsys, c, st))
             ELSE walkChildren(fsys, p, i + 1, st)

\* filepath.Walk(root, visit(&files))
Walk(fsys, root, st) ==
    IF ~Exists(fsys, root) THEN visit(st, root, TRUE)
    ELSE walk(fsys, root, st)

\* the loop of GetDirNames over names[i ..]
RECURSIVE GetDirNamesFrom(_, _, _, _)
GetDirNamesFrom(fsys, names, i, st) ==
    IF i > Len(names) THEN [files |-> st.files, err |-> FALSE, exited |-> FALSE]
    ELSE LET st1 == Walk(fsys, names[i], [st EXCEPT !.err = FALSE])
         IN  IF st1.exited
             THEN [files |-> <<>>, err |-> FALSE, exited |-> TRUE]
             ELSE IF st1.err
             THEN [files |-> <<>>, err |-> TRUE, exited |-> FALSE]
             ELSE GetDirNamesFrom(fsys, names, i + 1, st1)

\* GetDirNames(names): [files, err], or exited when log.Fatal ran
GetDirNames(fsys, names) ==
    GetDirNamesFrom(fsys, names, 1, [files |-> <<>>, err |-> FALSE, exited |-> FALSE])

\* the root lists a caller passes
RootLists == UNION {[1 .. k -> PathsOver({"a", "b"}, 1)] : k \in 0 .. 2}

\* someone makes the directory p
WalkMkDir(p) ==
    /\ wpc = "setup"
    /\ CanCreate(fs, p)
    /\ fs' = [fs EXCEPT ![p] = "dir"]
    /\ UNCHANGED <<opVars, optVars, pathVars, exited, walkVars, watchVars>>

\* someone makes the regular file p
WalkCreateFile(p) ==
    /\ wpc = "setup"
    /\ CanCreate(fs, p)
    /\ fs' = [fs EXCEPT ![p] = "file"]
    /\ UNCHANGED <<opVars, optVars, pathVars, exited, walkVars, watchVars>>

\* someone takes the read permission of directory p away
WalkMakeUnreadable(p) ==
    /\ wpc = "setup"
    /\ p \in DOMAIN fs
    /\ fs[p] = "dir"
    /\ fs' = [fs EXCEPT ![p] = "noperm"]
    /\ UNCHANGED <<opVars, optVars, pathVars, exited, walkVars, watchVars>>

\* a caller calls GetDirNames(names)
CallGetDirNames(names) ==
    /\ wpc = "setup"
    /\ LET r == GetDirNames(fs, names)
       IN  /\ rootsArg' = names
           /\ gdnRet' = [files |-> r.files, err |-> r.err]
           /\ exited' = r.exited
           /\ wpc' = IF r.exited THEN "exited" ELSE "returned"
    /\ UNCHANGED <<opVars, optVars, pathVars, fs, watchVars>>

-----------------------------------------------------------------------------
(* The demo command: cmd/fsnotify/watch.go.  The Watcher itself (Add,       *)
(* Close, the channels and the kernel behind them) is not part of these     *)
(* files; it is modelled from its specification.                            *)

WatchPaths == PathsOver({"a"}, MaxWatchDepth)

\* the paths given on the command line
WatchArgs == << <<"a">> >>

\* nothing printed yet
NoEvent == [Name |-> <<>>, Op |-> -1]

\* the zero value of Event, read from a closed channel
ZeroEvent == [Name |-> <<>>, Op |-> 0]

NoName == <<>>

\* the Op words of the events the watcher delivers besides a plain mkdir:
\* a file created, a file modified, and a directory creation carrying the
\* canonical Create bit next to the kernel's bits
RawOps == {IN_CREATE, IN_MODIFY, Or(Create, IN_CREATE + IN_ISDIR)}

\* the elements of a sequence
Range(s) == {s[i] : i \in 1 .. Len(s)}

\* Watcher.Add(p) on the registered set ws: a closed watcher refuses, a
\* missing path fails, otherwise p (and only p) is registered
Add(ws, p) ==
    IF closed \/ ~Exists(fs, p) THEN ws ELSE ws \cup {p}

\* watch(): GetDirNames on the arguments, w.Add on every path returned,
\* then block forever; any error ends the process through exit
watch ==
    /\ mainPc = "start"
    /\ ~exited
    /\ LET r == GetDirNames(fs, WatchArgs)
       IN  IF r.exited \/ r.err \/ closed
           THEN /\ exited' = TRUE
                /\ UNCHANGED <<watches, mainPc>>
           ELSE /\ watches' = watches \cup Range(r.files)
                /\ mainPc' = "ready"
                /\ UNCHANGED exited
    /\ UNCHANGED <<opVars, optVars, pathVars, fs, walkVars,
                   Events, Errors, closed, loopPc, printed, lastAdd>>

\* case err, ok := <-w.Errors with ok: print the error
LoopRecvError ==
    /\ Len(Errors) > 0
    /\ Errors' = Tail(Errors)
    /\ UNCHANGED <<watches, Events, loopPc, printed, lastAdd>>

\* case err, ok := <-w.Errors with !ok: return
LoopErrorsClosed ==
    /\ Len(Errors) = 0
    /\ closed
    /\ loopPc' = "done"
    /\ UNCHANGED <<watches, Events, Errors, printed, lastAdd>>

\* case e, ok := <-w.Events with ok: add a created directory, print the event
LoopRecvEvent ==
    /\ Len(Events) > 0
    /\ LET e == Head(Events)
       IN  /\ Events' = Tail(Events)
           /\ IF OpString(e.Op) = <<"IN_CREATE", "|", "IN_ISDIR">>
              THEN /\ watches' = Add(watches, e.Name)
                   /\ lastAdd' = e.Name
              ELSE /\ watches' = watches
                   /\ lastAdd' = NoName
           /\ printed' = e
    /\ UNCHANGED <<Errors, loopPc>>

\* case e, ok := <-w.Events with !ok: return
LoopEventsClosed ==
    /\ Len(Events) = 0
    /\ closed
    /\ loopPc' = "done"
    /\ UNCHANGED <<watches, Events, Errors, printed, lastAdd>>

\* a watchLoop whose select does not test ok: a closed channel's zero value
\* is handled like an error or an event, and the loop goes on
watchLoopIgnoresOk ==
    /\ loopPc = "run"
    /\ ~exited
    /\ \/ LoopRecvError
       \/ LoopRecvEvent
       \/ /\ closed
          /\ Len(Events) = 0
          /\ printed' = ZeroEvent
          /\ lastAdd' = NoName
          /\ UNCHANGED <<watches, Events, Errors, loopPc>>
    /\ UNCHANGED <<opVars, optVars, pathVars, fsVars, walkVars, closed, mainPc>>

\* one iteration of watchLoop: the select takes any ready case
watchLoop ==
    /\ loopPc = "run"
    /\ ~exited
    /\ \/ LoopRecvError
       \/ LoopErrorsClosed
       \/ LoopRecvEvent
       \/ LoopEventsClosed
    /\ UNCHANGED <<opVars, optVars, pathVars, fsVars, walkVars, closed, mainPc>>

\* the event queue takes one more event (the bound of the model)
QueueHasRoom == Len(Events) < MaxQueue

\* someone makes the directory p; the kernel reports it when the directory
\* it is made in is watched
KernelMkdir(p) ==
    /\ ~exited
    /\ Len(p) > 1
    /\ CanCreate(fs, p)
    /\ fs' = [fs EXCEPT ![p] = "dir"]
    /\ IF Parent(p) \in watches /\ ~closed
       THEN /\ QueueHasRoom
            /\ Events' = Append(Events, [Name |-> p, Op |-> IN_CREATE + IN_ISDIR])
       ELSE UNCHANGED Events
    /\ UNCHANGED <<opVars, optVars, pathVars, exited, walkVars,
                   watches, Errors, closed, mainPc, loopPc, printed, lastAdd>>

\* the watcher delivers another event about the watched entry p
RawEvent(p, op) ==
    /\ ~exited
    /\ ~closed
    /\ QueueHasRoom
    /\ Exists(fs, p)
    /\ p \in watches \/ Parent(p) \in watches
    /\ Events' = Append(Events, [Name |-> p, Op |-> op])
    /\ UNCHANGED <<opVars, optVars, pathVars, fsVars, walkVars,
                   watches, Errors, closed, mainPc, loopPc, printed, lastAdd>>

\* the watcher posts an error
PostError ==
    /\ ~exited
    /\ ~closed
    /\ Len(Errors) < MaxErrQueue
    /\ Errors' = Append(Errors, "error")
    /\ UNCHANGED <<opVars, optVars, pathVars, fsVars, walkVars,
                   watches, Events, closed, mainPc, loopPc, printed, lastAdd>>

\* Close: drains and closes both channels
Close ==
    /\ ~exited
    /\ ~closed
    /\ closed' = TRUE
    /\ Events' = <<>>
    /\ Errors' = <<>>
    /\ UNCHANGED <<opVars, optVars, pathVars, fsVars, walkVars,
                   watches, mainPc, loopPc, printed, lastAdd>>

-----------------------------------------------------------------------------
(* Initial states *)

OpInit ==
    /\ flags = {}
    /\ o = 0
    /\ h = 0
    /\ hasRes = Has(0, 0)
    /\ evHasRes = EventHas([Name |-> <<"f">>, Op |-> 0], 0)
    /\ str = OpString(0)

OptsInit ==
    /\ defaultOpts = [bufsize |-> DefaultBufSize]
    /\ optLog = <<>>
    /\ with = [bufsize |-> DefaultBufSize]

PathInit ==
    /\ path = <<>>
    /\ ret = recursivePath(<<>>)

WalkInit ==
    /\ rootsArg = <<>>
    /\ gdnRet = [files |-> <<>>, err |-> FALSE]
    /\ wpc = "setup"
    /\ exited = FALSE

WatchInit ==
    /\ watches = {}
    /\ Events = <<>>
    /\ Errors = <<>>
    /\ closed = FALSE
    /\ mainPc = "start"
    /\ loopPc = "run"
    /\ printed = NoEvent
    /\ lastAdd = NoName

\* an empty file system to walk
EmptyFs == fs = [p \in WalkPaths |-> "none"]

\* the file system of the demo command: the directory named on the command
\* line exists
WatchedFs == fs = [p \in WatchPaths |-> IF p = <<"a">> THEN "dir" ELSE "none"]

-----------------------------------------------------------------------------
(* SpecOp: an event's Op word is built by OR-ing named constants into it,   *)
(* and is asked about with Has and String.                                  *)

\* the event source ORs the constant named n into the Op word
OrFlag(n) ==
    /\ n \notin flags
    /\ Cardinality(flags) < MaxFlags
    /\ flags' = flags \cup {n}
    /\ o' = Or(o, FlagValue(n))
    /\ h' = h
    /\ hasRes' = Has(o', h)
    /\ evHasRes' = EventHas([Name |-> <<"f">>, Op |-> o'], h)
    /\ str' = OpString(o')
    /\ UNCHANGED <<optVars, pathVars, fsVars, walkVars, watchVars>>

\* a new event starts from the empty Op word
NewEvent ==
    /\ flags # {}
    /\ flags' = {}
    /\ o' = 0
    /\ h' = h
    /\ hasRes' = Has(0, h)
    /\ evHasRes' = EventHas([Name |-> <<"f">>, Op |-> 0], h)
    /\ str' = OpString(0)
    /\ UNCHANGED <<optVars, pathVars, fsVars, walkVars, watchVars>>

\* the receiver asks o.Has(m) and e.Has(m)
AskHas(m) ==
    /\ m # h
    /\ h' = m
    /\ hasRes' = Has(o, m)
    /\ evHasRes' = EventHas([Name |-> <<"f">>, Op |-> o], m)
    /\ UNCHANGED <<flags, o, str>>
    /\ UNCHANGED <<optVars, pathVars, fsVars, walkVars, watchVars>>

InitOp == OpInit /\ OptsInit /\ PathInit /\ WalkInit /\ EmptyFs /\ WatchInit

NextOp ==
    \/ \E n \in FlagNames : OrFlag(n)
    \/ NewEvent
    \/ \E m \in Masks : AskHas(m)

SpecOp == InitOp /\ [][NextOp]_vars

-----------------------------------------------------------------------------
(* SpecOpts: callers resolve options *)

NextOpts == \E opts \in OptLists : CallGetOptions(opts)

SpecOpts == InitOp /\ [][NextOpts]_vars

-----------------------------------------------------------------------------
(* SpecPath: callers ask recursivePath about the paths they type *)

NextPath ==
    \/ \E c \in Chars : TypeChar(c)
    \/ ClearPath

SpecPath == InitOp /\ [][NextPath]_vars

-----------------------------------------------------------------------------
(* SpecWalk: a file system is set up and GetDirNames is called on it *)

NextWalk ==
    \/ \E p \in WalkPaths : WalkMkDir(p)
    \/ \E p \in WalkPaths : WalkCreateFile(p)
    \/ \E p \in WalkPaths : WalkMakeUnreadable(p)
    \/ \E names \in RootLists : CallGetDirNames(names)

SpecWalk == InitOp /\ [][NextWalk]_vars

-----------------------------------------------------------------------------
(* SpecWatch: the demo command runs; FairSpecWatch: and watchLoop, a        *)
(* goroutine of its own, is scheduled whenever it can take a step           *)

InitWatch == OpInit /\ OptsInit /\ PathInit /\ WalkInit /\ WatchedFs /\ WatchInit

NextWatch ==
    \/ watch
    \/ watchLoop
    \/ \E p \in WatchPaths : KernelMkdir(p)
    \/ \E p \in WatchPaths, op \in RawOps : RawEvent(p, op)
    \/ PostError
    \/ Close

SpecWatch == InitWatch /\ [][NextWatch]_vars

FairSpecWatch == SpecWatch /\ WF_vars(watchLoop)

-----------------------------------------------------------------------------
(* Claims *)

\* C1: the canonical operation bits and the kernel subflag bits are separate
\* bits of the Op word, so a canonical test o.Has(Create), o.Has(Write),
\* o.Has(Remove), o.Has(Rename) or o.Has(Chmod) answers true only when that
\* canonical operation was put into o, never because of a kernel subflag.
C1_CanonicalBitsSeparate ==
    \A c \in CanonicalNames : Has(o, CanonicalOps[c]) => c \in flags

\* C2: recursivePath returns (parent, true) with a path that no longer ends
\* in "..." when the final component of its argument is "...", and the
\* argument unchanged and false otherwise.
C2_StripsSuffix ==
    IF Base(path) = Dots
    THEN ret.ok /\ Base(ret.path) # Dots
    ELSE ~ret.ok /\ ret.path = path

\* root cannot be walked: it is missing, or a directory under it is unreadable
Unwalkable(root) ==
    \/ ~Exists(fs, root)
    \/ \E p \in DOMAIN fs : Under(root, p) /\ fs[p] = "noperm"

\* C3: when a root of the input list is not walkable, GetDirNames returns a
\* non-nil error and a nil list to its caller, and the process keeps running.
C3_ReturnsError ==
    (wpc # "setup" /\ \E i \in 1 .. Len(rootsArg) : Unwalkable(rootsArg[i]))
        => /\ wpc = "returned"
           /\ ~exited
           /\ gdnRet.err
           /\ gdnRet.files = <<>>

\* C4: for walkable roots GetDirNames returns the directories under the
\* roots: every directory at any depth (the root included), no regular file,
\* and each directory before the paths nested in it.
C4_DirsPreorder ==
    (wpc # "setup" /\ \A i \in 1 .. Len(rootsArg) : ~Unwalkable(rootsArg[i]))
        => LET fl == gdnRet.files
           IN  /\ wpc = "returned"
               /\ ~gdnRet.err
               /\ \A p \in DOMAIN fs :
                      (fs[p] = "dir" /\ \E i \in 1 .. Len(rootsArg) : Under(rootsArg[i], p))
                          => p \in Range(fl)
               /\ \A k \in 1 .. Len(fl) : fs[fl[k]] = "dir"
               /\ \A k \in 1 .. Len(fl) :
                      \/ fl[k] \in Range(rootsArg)
                      \/ \E j \in 1 .. k - 1 : fl[j] = Parent(fl[k])

\* C5: getOptions without options yields bufsize 65536, with options the
\* value of the last one, and no call changes the package default, so a
\* later call without options still yields 65536.
C5_DefaultsKept ==
    /\ defaultOpts.bufsize = 65536
    /\ Len(optLog) > 0 =>
           LET last == optLog[Len(optLog)]
           IN  with.bufsize = IF Len(last) = 0 THEN 65536 ELSE last[Len(last)]

\* C5 witness: a call with options was followed by a call without any,
\* which yielded the default
C5_Witness ==
    /\ Len(optLog) >= 2
    /\ Len(optLog[1]) > 0
    /\ optLog[1][Len(optLog[1])] # 65536
    /\ Len(optLog[Len(optLog)]) = 0
    /\ with.bufsize = 65536

\* C6: o.Has(h) is true exactly when every bit of h is set in o; so the word
\* has each constant OR-ed into it, has itself and the empty mask, has a
\* composite mask (IN_CLOSE, IN_MOVE) only with all of its bits; and
\* Event.Has agrees with Op.Has.
C6_HasIsContainment ==
    /\ hasRes = (\A i \in BitPos : Bit(h, i) => Bit(o, i))
    /\ evHasRes = hasRes
    /\ Has(o, o)
    /\ Has(o, 0)
    /\ \A n \in flags : Has(o, FlagValue(n))
    /\ h = IN_CLOSE => (hasRes <=> (Bit(o, 3) /\ Bit(o, 4)))
    /\ h = IN_MOVE => (hasRes <=> (Bit(o, 6) /\ Bit(o, 7)))

\* C6 witness: the word holds one bit of the composite mask IN_CLOSE and Has
\* answers false
C6_Witness ==
    /\ o = IN_CLOSE_WRITE
    /\ h = IN_CLOSE
    /\ ~hasRes

\* C7: for every event with both IN_CREATE and IN_ISDIR set, whatever other
\* bits are set, watchLoop calls w.Add(e.Name) while handling it.
C7_DirCreateAdded ==
    (printed # NoEvent /\ Has(printed.Op, IN_CREATE) /\ Has(printed.Op, IN_ISDIR))
        => lastAdd = printed.Name

StringHits == SelectSeq(StringMasks, LAMBDA m : Has(o, m.mask))

\* C9: o.String() is the names of exactly the tested masks o has, in the
\* fixed order, joined by "|" with no leading or trailing separator, never a
\* canonical name; it is "[no events]" exactly when o has none of the masks.
C9_StringNamesSubflags ==
    /\ (Len(StringHits) = 0) <=> (str = <<"[no events]">>)
    /\ Len(StringHits) > 0 =>
           /\ Len(str) = 2 * Len(StringHits) - 1
           /\ \A i \in 1 .. Len(StringHits) : str[2 * i - 1] = StringHits[i].name
           /\ \A i \in 1 .. Len(StringHits) - 1 : str[2 * i] = "|"
    /\ \A i \in 1 .. Len(str) :
           str[i] \notin {"CREATE", "WRITE", "REMOVE", "RENAME", "CHMOD"}

\* C9 witness: a word with both close bits prints the composite IN_CLOSE
\* and its two parts, in the order tested
C9_Witness ==
    /\ flags = {"IN_CLOSE_WRITE", "IN_CLOSE_NOWRITE"}
    /\ str = <<"IN_CLOSE", "|", "IN_CLOSE_NOWRITE", "|", "IN_CLOSE_WRITE">>

\* C10: once Close has closed the channels, watchLoop, scheduled fairly in a
\* process that is still running, eventually returns; it returns only after
\* reading a closed signal; and after it has returned it calls w.Add no more
\* and prints no more.
C10_ReturnsOnClose ==
    /\ []((closed /\ ~exited) => <>(loopPc = "done" \/ exited))
    /\ [](loopPc = "done" => closed)
    /\ [][loopPc = "done" => (printed' = printed /\ lastAdd' = lastAdd)]_vars

\* C10 witness: the channels are closed and watchLoop has returned, after it
\* printed an event
C10_Witness ==
    /\ closed
    /\ loopPc = "done"
    /\ printed # NoEvent

=============================================================================
